---------------------------- MODULE Spec2Model ----------------------------
(***************************************************************************)
(* A model of src/agent/battery_agent.py: the report parser (label/value   *)
(* lookup, section extraction, numeric coercion, history table parsing)    *)
(* and the health scorer.                                                  *)
(*                                                                         *)
(* Representation.                                                         *)
(*  - A Python str is a sequence of tokens.  A token is a one-character    *)
(*    string ("N", " ", "0"), or one whole markup tag ("<td>", "</tr>",    *)
(*    "<td class=x>") or one character entity ("&amp;").  Text tokens      *)
(*    never contain "<" or ">", so every regular expression of the source  *)
(*    matches on token boundaries exactly as it does on characters.        *)
(*  - Optional[T] is a sequence of length at most one: None is << >>,      *)
(*    a present value v is <<v>>.                                          *)
(*  - A float with two decimals is the integer number of hundredths.       *)
(*  - An exception escaping a function is the value Raised.                *)
(***************************************************************************)
EXTENDS Integers, Sequences, FiniteSets, TLC

VARIABLES
    pc,            \* position in main(): "start", "parsed", "built", "raised"
    doc,           \* the structure the input text was written from
    html,          \* the text handed to the function under analysis
    arg,           \* the second argument (label, title) or the value coerced
    ret,           \* the return value of a helper called on its own
    system_info,   \* parse_battery_report()[0]
    battery_info,  \* parse_battery_report()[1]
    history,       \* parse_battery_report()[2]
    health         \* compute_health(battery_info)

vars == <<pc, doc, html, arg, ret, system_info, battery_info, history, health>>

None == << >>

Some(v) == <<v>>

\* An exception that leaves the function (int() of "" is a ValueError).
Raised == <<-1>>

\* Python truthiness of an Optional[int]: None and 0 are false.
Falsy(x) == x = None \/ x[1] = 0

Min(a, b) == IF a <= b THEN a ELSE b

-----------------------------------------------------------------------------
(* Health Scorer: compute_health                                           *)

\* Bounds of the scorer's inputs.
MaxCapacity == 32

MaxCycleBlocks == 26

\* The percentage cut to two decimals instead of rounded.
RoundHundredthsTrunc(n, d) == {(n * 10000) \div d}

\* round(n / d * 100, 2) in hundredths.  The nearest hundredth; when
\* n * 10000 / d lies exactly half way the binary floating point error of the
\* two operations decides, so both neighbours are possible outcomes.
RoundHundredths(n, d) ==
    LET q == (n * 10000) \div d
        r == (n * 10000) % d
    IN  IF 2 * r < d THEN {q}
        ELSE IF 2 * r > d THEN {q + 1}
        ELSE {q, q + 1}

\* The test with a zero full-charge capacity taken for a value.
NoCapacityZeroFull(battery) ==
    Falsy(battery.design_capacity_mwh) \/ battery.full_charge_capacity_mwh = None

\* "not battery.design_capacity_mwh or not battery.full_charge_capacity_mwh"
NoCapacity(battery) ==
    Falsy(battery.design_capacity_mwh) \/ Falsy(battery.full_charge_capacity_mwh)

\* The possible values of health_pct, in hundredths.
health_pct_of(battery) ==
    IF NoCapacity(battery) THEN {None}
    ELSE {Some(h) : h \in RoundHundredths(battery.full_charge_capacity_mwh[1],
                                          battery.design_capacity_mwh[1])}

\* degradation_pct = round(100 - health_pct, 2), in hundredths.
degradation_pct_of(health_pct) ==
    IF health_pct # None THEN Some(10000 - health_pct[1]) ELSE None

\* The penalty without its cap of 15.
cycle_penalty_uncapped(battery) ==
    IF ~Falsy(battery.cycle_count) /\ battery.cycle_count[1] > 500
    THEN (battery.cycle_count[1] - 500) \div 50
    ELSE 0

\* cycle_penalty: min(15, (cycle_count - 500) // 50) above 500 cycles.
cycle_penalty_of(battery) ==
    IF ~Falsy(battery.cycle_count) /\ battery.cycle_count[1] > 500
    THEN Min(15, (battery.cycle_count[1] - 500) \div 50)
    ELSE 0

\* The bands with exclusive lower bounds.
estimated_remaining_life_strict(health_pct) ==
    IF health_pct = None THEN "unknown"
    ELSE IF health_pct[1] > 8500 THEN "18-24 months"
    ELSE IF health_pct[1] > 7000 THEN "12-18 months"
    ELSE IF health_pct[1] > 6000 THEN "6-12 months"
    ELSE "0-6 months"

\* estimated_remaining_life: the if/elif chain on health_pct.
estimated_remaining_life_of(health_pct) ==
    IF health_pct = None THEN "unknown"
    ELSE IF health_pct[1] >= 8500 THEN "18-24 months"
    ELSE IF health_pct[1] >= 7000 THEN "12-18 months"
    ELSE IF health_pct[1] >= 6000 THEN "6-12 months"
    ELSE "0-6 months"

\* The set of dicts compute_health can return for one BatteryInfo.
compute_health(battery) ==
    { [ health_percentage        |-> hp,
        degradation_percentage   |-> degradation_pct_of(hp),
        cycle_penalty            |-> cycle_penalty_of(battery),
        estimated_remaining_life |-> estimated_remaining_life_of(hp) ]
      : hp \in health_pct_of(battery) }

\* build_payload: the health assessment of the parsed battery.
BuildPayload ==
    /\ pc = "parsed"
    /\ \E h \in compute_health(battery_info) : health' = h
    /\ pc' = "built"
    /\ UNCHANGED <<doc, html, arg, ret, system_info, battery_info, history>>

Capacities == (0 .. MaxCapacity) \cup {699, 700, 1000, 1700, 2000}

CycleCounts ==
    {i * 50 + j : i \in 0 .. MaxCycleBlocks, j \in {0, 1, 49}} \cup {10000}

OptionalOf(S) == {None} \cup {Some(v) : v \in S}

BatteryInfos ==
    [ name : {None}, manufacturer : {None}, chemistry : {None},
      design_capacity_mwh      : OptionalOf(Capacities),
      full_charge_capacity_mwh : OptionalOf(Capacities),
      cycle_count              : OptionalOf(CycleCounts) ]

InitHealth ==
    /\ pc = "parsed"
    /\ doc = << >>
    /\ html = << >>
    /\ arg = None
    /\ ret = None
    /\ system_info = None
    /\ battery_info \in BatteryInfos
    /\ history = << >>
    /\ health = None

SpecHealth == InitHealth /\ [][BuildPayload]_vars


\* C2: a capacity that is absent or zero leaves health_percentage and
\* degradation_percentage absent and the remaining life "unknown", whatever
\* the cycle count; two present non-zero capacities make all three defined.
C2_AbsentCapacity ==
    pc = "built" =>
        LET d == battery_info.design_capacity_mwh
            f == battery_info.full_charge_capacity_mwh
        IN  IF d = None \/ d = Some(0) \/ f = None \/ f = Some(0)
            THEN /\ health.health_percentage = None
                 /\ health.degradation_percentage = None
                 /\ health.estimated_remaining_life = "unknown"
            ELSE /\ health.health_percentage # None
                 /\ health.degradation_percentage # None
                 /\ health.estimated_remaining_life # "unknown"

C2_Witness ==
    /\ pc = "built"
    /\ battery_info.design_capacity_mwh = Some(1000)
    /\ battery_info.full_charge_capacity_mwh = Some(0)
    /\ battery_info.cycle_count = Some(600)
    /\ health.health_percentage = None
    /\ health.estimated_remaining_life = "unknown"

\* C3: cycle_penalty is 0 for an absent cycle count or one of at most 500,
\* else min(15, floor((cycle_count - 500) / 50)); it lies in 0..15, is 0 for
\* 500 and 549, 2 for 600 and 15 for 10000, whatever the capacities are.
C3_CyclePenalty ==
    pc = "built" =>
        LET c == battery_info.cycle_count
            p == health.cycle_penalty
        IN  /\ p \in 0 .. 15
            /\ (c = None \/ c[1] <= 500) => p = 0
            /\ (c # None /\ c[1] > 500) =>
                   /\ p <= 15
                   /\ p < 15 => /\ 50 * p <= c[1] - 500
                                /\ c[1] - 500 < 50 * (p + 1)
                   /\ p = 15 => c[1] - 500 >= 750
            /\ c = Some(500) => p = 0
            /\ c = Some(549) => p = 0
            /\ c = Some(600) => p = 2
            /\ c = Some(10000) => p = 15

C3_Witness ==
    /\ pc = "built"
    /\ battery_info.cycle_count = Some(10000)
    /\ battery_info.design_capacity_mwh = None
    /\ health.cycle_penalty = 15

\* C4: a present health_percentage selects the remaining life by inclusive
\* lower bounds, highest first: >= 85, >= 70, >= 60, else "0-6 months".
C4_LifeBands ==
    (pc = "built" /\ health.health_percentage # None) =>
        LET h == health.health_percentage[1]
            e == health.estimated_remaining_life
        IN  /\ (e = "18-24 months") <=> (h >= 8500)
            /\ (e = "12-18 months") <=> (h >= 7000 /\ h < 8500)
            /\ (e = "6-12 months") <=> (h >= 6000 /\ h < 7000)
            /\ (e = "0-6 months") <=> (h < 6000)
            /\ (/\ battery_info.design_capacity_mwh = Some(2000)
                /\ battery_info.full_charge_capacity_mwh = Some(1700))
                   => (h = 8500 /\ e = "18-24 months")
            /\ (/\ battery_info.design_capacity_mwh = Some(1000)
                /\ battery_info.full_charge_capacity_mwh = Some(699))
                   => (h = 6990 /\ e = "6-12 months")

C4_Witness ==
    /\ pc = "built"
    /\ battery_info.design_capacity_mwh = Some(2000)
    /\ battery_info.full_charge_capacity_mwh = Some(1700)
    /\ health.health_percentage = Some(8500)
    /\ health.estimated_remaining_life = "18-24 months"

\* C5: with both capacities present and non-zero, health_percentage is
\* full / design * 100 rounded to the nearest hundredth and
\* degradation_percentage is 100 minus it, also when full exceeds design.
C5_Percentages ==
    (/\ pc = "built"
     /\ ~Falsy(battery_info.design_capacity_mwh)
     /\ ~Falsy(battery_info.full_charge_capacity_mwh)) =>
        LET d == battery_info.design_capacity_mwh[1]
            f == battery_info.full_charge_capacity_mwh[1]
        IN  /\ health.health_percentage # None
            /\ health.degradation_percentage # None
            /\ LET h == health.health_percentage[1]
                   e == h * d - f * 10000
               IN  /\ 2 * e <= d
                   /\ 2 * e >= -d
                   /\ health.degradation_percentage[1] = 10000 - h
                   /\ h + health.degradation_percentage[1] = 10000

C5_Witness ==
    /\ pc = "built"
    /\ battery_info.design_capacity_mwh = Some(7)
    /\ battery_info.full_charge_capacity_mwh = Some(9)
    /\ health.health_percentage = Some(12857)
    /\ health.degradation_percentage = Some(-2857)

-----------------------------------------------------------------------------
(* Numeric Coercion: _parse_int                                            *)

\* The longest string enumerated as an input of _parse_int.
MaxStrLen == 3

Digits == <<"0", "1", "2", "3", "4", "5", "6", "7", "8", "9">>

\* The class [0-9].
IsDigit(c) == \E i \in 1 .. 10 : Digits[i] = c

DigitValue(c) == (CHOOSE i \in 1 .. 10 : Digits[i] = c) - 1

RECURSIVE DecimalValue(_)
DecimalValue(digits) ==
    IF digits = << >> THEN 0
    ELSE 10 * DecimalValue(SubSeq(digits, 1, Len(digits) - 1))
         + DigitValue(digits[Len(digits)])

\* int(digits) for a string of [0-9] only: "" raises ValueError (-1, which no
\* digit string denotes), anything else is its decimal value.
int_of(digits) == IF digits = << >> THEN -1 ELSE DecimalValue(digits)

\* re.sub(r"[^0-9]", "", value)
StripNonDigits(value) == SelectSeq(value, IsDigit)

\* The coercion with a digit-free value read as zero.
parse_int_zero(value) ==
    IF value = None \/ value[1] = << >> THEN None
    ELSE Some(DecimalValue(StripNonDigits(value[1])))

\* The coercion without its "if digits" guard: int("") raises.
parse_int_unguarded(value) ==
    IF value = None \/ value[1] = << >> THEN None
    ELSE Some(int_of(StripNonDigits(value[1])))

\* _parse_int: None for None or "", else int() of the digits, None without any.
parse_int(value) ==
    IF value = None \/ value[1] = << >> THEN None
    ELSE LET digits == StripNonDigits(value[1])
         IN  IF digits # << >> THEN Some(int_of(digits)) ELSE None

\* One call of _parse_int on its own.
ParseInt ==
    /\ pc = "start"
    /\ ret' = parse_int(arg)
    /\ pc' = IF ret' = Raised THEN "raised" ELSE "returned"
    /\ UNCHANGED <<doc, html, arg, system_info, battery_info, history, health>>

CoerceAlphabet == {"0", "1", "9", ",", " ", "m", "-"}

RECURSIVE StringsUpTo(_, _)
StringsUpTo(alphabet, n) ==
    IF n = 0 THEN {<< >>}
    ELSE LET shorter == StringsUpTo(alphabet, n - 1)
         IN  shorter \cup {Append(s, c) : s \in shorter, c \in alphabet}

Str1000 == <<"1", "0", "0", "0">>

Str1000mWh == <<"1", ",", "0", "0", "0", " ", "m", "W", "h">>

CoerceInputs ==
    OptionalOf(StringsUpTo(CoerceAlphabet, MaxStrLen) \cup {Str1000, Str1000mWh})

InitParseInt ==
    /\ pc = "start"
    /\ doc = << >>
    /\ html = << >>
    /\ arg \in CoerceInputs
    /\ ret = None
    /\ system_info = None
    /\ battery_info = None
    /\ history = << >>
    /\ health = None

SpecParseInt == InitParseInt /\ [][ParseInt]_vars

\* The digit characters of a string, in order.
RECURSIVE DigitsIn(_)
DigitsIn(s) ==
    IF s = << >> THEN << >>
    ELSE IF Head(s) \in {"0", "1", "2", "3", "4", "5", "6", "7", "8", "9"}
         THEN <<Head(s)>> \o DigitsIn(Tail(s))
         ELSE DigitsIn(Tail(s))

\* A digit string without its leading zeros ("0" for a string of zeros).
RECURSIVE NoLeadingZeros(_)
NoLeadingZeros(ds) ==
    IF Len(ds) > 1 /\ Head(ds) = "0" THEN NoLeadingZeros(Tail(ds)) ELSE ds

\* The decimal numeral of a natural number.
RECURSIVE Numeral(_)
Numeral(n) ==
    IF n < 10 THEN <<Digits[n + 1]>>
    ELSE Append(Numeral(n \div 10), Digits[(n % 10) + 1])

\* C6: _parse_int never raises; it is absent for an absent, empty or
\* digit-free input and otherwise the non-negative integer its digit
\* characters denote, in order ("1000" and "1,000 mWh" give 1000); it is zero
\* only when those digits denote zero.
C6_ParseInt ==
    /\ pc # "raised"
    /\ pc = "returned" =>
        /\ ret # Raised
        /\ (ret = None) <=> (arg = None \/ DigitsIn(arg[1]) = << >>)
        /\ ret # None =>
              /\ ret[1] >= 0
              /\ Numeral(ret[1]) = NoLeadingZeros(DigitsIn(arg[1]))
        /\ arg = Some(Str1000) => ret = Some(1000)
        /\ arg = Some(Str1000mWh) => ret = Some(1000)
        /\ arg = Some(<< >>) => ret = None

C6_Witness ==
    /\ pc = "returned"
    /\ arg = Some(Str1000mWh)
    /\ ret = Some(1000)

-----------------------------------------------------------------------------
(* Text Normalizer and the regular expressions of the extractors           *)

UpperCase == <<"A", "B", "C", "D", "E", "F", "G", "H", "I", "J", "K", "L", "M",
               "N", "O", "P", "Q", "R", "S", "T", "U", "V", "W", "X", "Y", "Z">>

LowerCase == <<"a", "b", "c", "d", "e", "f", "g", "h", "i", "j", "k", "l", "m",
               "n", "o", "p", "q", "r", "s", "t", "u", "v", "w", "x", "y", "z">>

\* str.lower() of one character; re.IGNORECASE compares characters by it.
UpperLetters == {UpperCase[i] : i \in 1 .. 26}

LowerOf == [c \in UpperLetters |-> LowerCase[CHOOSE i \in 1 .. 26 : UpperCase[i] = c]]

Lower(c) == IF c \in UpperLetters THEN LowerOf[c] ELSE c

LowerStr(s) == [i \in 1 .. Len(s) |-> Lower(s[i])]

\* The class \s.
IsSpace(c) == c \in {" ", "\n", "\t"}

\* The tags of the model's documents that each pattern fragment matches
\* (re.IGNORECASE).
\* <td[^>]*>
IsTdOpen(t) == t \in {"<td>", "<TD>", "<td class=x>"}

\* </td>
IsTdClose(t) == t \in {"</td>", "</TD>"}

\* <t[dh][^>]*>
IsCellOpen(t) == t \in {"<td>", "<TD>", "<td class=x>", "<th>", "<th class=x>", "<thead>"}

\* </t[dh]>
IsCellClose(t) == t \in {"</td>", "</TD>", "</th>"}

\* <tr>
IsRowOpen(t) == t \in {"<tr>", "<TR>"}

\* </tr>
IsRowClose(t) == t \in {"</tr>", "</TR>"}

\* </h2>
IsH2Close(t) == t \in {"</h2>", "</H2>"}

\* <table, the start of a tag
IsTableOpen(t) == t \in {"<table>", "<table class=x>"}

\* </table>
IsTableClose(t) == t \in {"</table>"}

\* html.unescape
Unescape(text) ==
    [i \in 1 .. Len(text) |-> IF text[i] = "&amp;" THEN "&" ELSE text[i]]

\* re.sub(r"\s+", " ", text)
RECURSIVE CollapseSpace(_)
CollapseSpace(text) ==
    IF text = << >> THEN << >>
    ELSE IF IsSpace(Head(text))
         THEN IF Len(text) > 1 /\ IsSpace(text[2])
              THEN CollapseSpace(Tail(text))
              ELSE <<" ">> \o CollapseSpace(Tail(text))
         ELSE <<Head(text)>> \o CollapseSpace(Tail(text))

\* str.strip()
RECURSIVE Strip(_)
Strip(text) ==
    IF text = << >> THEN << >>
    ELSE IF IsSpace(Head(text)) THEN Strip(Tail(text))
    ELSE IF IsSpace(text[Len(text)]) THEN Strip(SubSeq(text, 1, Len(text) - 1))
    ELSE text

clean_html(text) == Strip(CollapseSpace(Unescape(text)))

\* The literal text `lit` matches at position i (re.IGNORECASE).
LiteralAt(text, lit, i) ==
    /\ i + Len(lit) - 1 <= Len(text)
    /\ \A k \in 1 .. Len(lit) : Lower(text[i + k - 1]) = Lower(lit[k])

\* The position after the whitespace run that starts at i: where the token
\* after \s* has to match.
RECURSIVE SkipSpace(_, _)
SkipSpace(text, i) ==
    IF i <= Len(text) /\ IsSpace(text[i]) THEN SkipSpace(text, i + 1) ELSE i

\* Positions after i of the tokens a closing pattern matches.
TdClosesAfter(text, i) == {e \in (i + 1) .. Len(text) : IsTdClose(text[e])}

SetMin(S) == CHOOSE x \in S : \A y \in S : x <= y

SetMax(S) == CHOOSE x \in S : \A y \in S : x >= y

-----------------------------------------------------------------------------
(* Field Extractor: _find_label_value                                      *)

\* The match of  label\s*</td>\s*<td[^>]*>(.*?)</td>  starting at i:
\* None, or Some(group 1).
LabelMatchAt(text, label, i) ==
    IF ~LiteralAt(text, label, i) THEN None
    ELSE LET j == SkipSpace(text, i + Len(label))
         IN  IF j > Len(text) \/ ~IsTdClose(text[j]) THEN None
             ELSE LET k == SkipSpace(text, j + 1)
                  IN  IF k > Len(text) \/ ~IsTdOpen(text[k]) THEN None
                      ELSE IF TdClosesAfter(text, k) = {} THEN None
                      ELSE Some(SubSeq(text, k + 1, SetMin(TdClosesAfter(text, k)) - 1))

LabelMatchStarts(text, label) ==
    {i \in 1 .. Len(text) : LabelMatchAt(text, label, i) # None}

\* The lookup taking the last match instead of the first.
find_label_value_last(text, label) ==
    IF LabelMatchStarts(text, label) = {} THEN None
    ELSE Some(clean_html(LabelMatchAt(text, label, SetMax(LabelMatchStarts(text, label)))[1]))

\* pattern.search: the leftmost match.
find_label_value(text, label) ==
    IF LabelMatchStarts(text, label) = {} THEN None
    ELSE Some(clean_html(LabelMatchAt(text, label, SetMin(LabelMatchStarts(text, label)))[1]))

\* One call of _find_label_value on its own.
FindLabelValue ==
    /\ pc = "start"
    /\ ret' = find_label_value(html, arg)
    /\ pc' = "returned"
    /\ UNCHANGED <<doc, html, arg, system_info, battery_info, history, health>>

\* The labels parse_battery_report and _parse_system_info look up.
SystemProductName == <<"S","y","s","t","e","m"," ","P","r","o","d","u","c","t"," ","N","a","m","e">>

BIOS == <<"B","I","O","S">>

OSBuild == <<"O","S"," ","b","u","i","l","d">>

ReportTime == <<"R","e","p","o","r","t"," ","T","i","m","e">>

Name == <<"N","a","m","e">>

Manufacturer == <<"M","a","n","u","f","a","c","t","u","r","e","r">>

Chemistry == <<"C","h","e","m","i","s","t","r","y">>

DesignCapacity == <<"D","e","s","i","g","n"," ","C","a","p","a","c","i","t","y">>

FullChargeCapacity == <<"F","u","l","l"," ","C","h","a","r","g","e"," ","C","a","p","a","c","i","t","y">>

CycleCount == <<"C","y","c","l","e"," ","C","o","u","n","t">>

\* Documents of label rows.  A row is <tr><td>label</td> gap, then, when
\* `open` is present, a container `open` value closing-tag, then </tr>;
\* `norm` is the value as it reads once normalized.
MaxFindRows == 3

Flatten(seqs) ==
    LET RECURSIVE Cat(_)
        Cat(n) == IF n = 0 THEN << >> ELSE Cat(n - 1) \o seqs[n]
    IN  Cat(Len(seqs))

CloseOf(open) ==
    IF open = "<th>" \/ open = "<th class=x>" THEN "</th>"
    ELSE IF open = "<TD>" THEN "</TD>"
    ELSE "</td>"

RenderLabelRow(row) ==
    <<"<tr>", "<td>">> \o row.label \o <<"</td>">> \o row.gap
    \o (IF row.open = None THEN << >>
        ELSE <<row.open[1]>> \o row.value \o <<CloseOf(row.open[1])>>)
    \o <<"</tr>", "\n">>

RenderLabelRows(rows) ==
    Flatten([i \in 1 .. Len(rows) |-> RenderLabelRow(rows[i])])

LabelRowKinds ==
    { [label |-> Name, gap |-> << >>, open |-> Some("<td>"),
       value |-> <<"A">>, norm |-> <<"A">>],
      [label |-> <<"N","A","M","E">>, gap |-> <<"\n", " ">>, open |-> Some("<td class=x>"),
       value |-> <<" ", "B", "\n", " ", "b", " ">>, norm |-> <<"B", " ", "b">>],
      [label |-> Name, gap |-> << >>, open |-> None,
       value |-> << >>, norm |-> << >>],
      [label |-> SystemProductName, gap |-> << >>, open |-> Some("<td>"),
       value |-> <<"C">>, norm |-> <<"C">>],
      [label |-> BIOS, gap |-> << >>, open |-> Some("<TD>"),
       value |-> << >>, norm |-> << >>],
      [label |-> <<"I", "d">>, gap |-> << >>, open |-> Some("<td>"),
       value |-> Name, norm |-> Name],
      [label |-> <<"N","a","m","e"," ">>, gap |-> <<"\n">>, open |-> Some("<td>"),
       value |-> <<"D", "&amp;", "E">>, norm |-> <<"D", "&", "E">>],
      [label |-> Name, gap |-> << >>, open |-> Some("<th>"),
       value |-> <<"F">>, norm |-> <<"F">>] }

RECURSIVE SeqsUpTo(_, _)
SeqsUpTo(S, n) ==
    IF n = 0 THEN {<< >>}
    ELSE LET shorter == SeqsUpTo(S, n - 1)
         IN  shorter \cup {Append(s, x) : s \in shorter, x \in S}

InitFind ==
    /\ pc = "start"
    /\ doc \in SeqsUpTo(LabelRowKinds, MaxFindRows)
    /\ html = RenderLabelRows(doc)
    /\ arg \in {Name, BIOS}
    /\ ret = None
    /\ system_info = None
    /\ battery_info = None
    /\ history = << >>
    /\ health = None

SpecFind == InitFind /\ [][FindLabelValue]_vars

\* The label cell of a row ends with the label, whatever the case and the
\* white space between it and the end of the cell: the label occurs there.
RECURSIVE TrimRight(_)
TrimRight(text) ==
    IF text # << >> /\ text[Len(text)] \in {" ", "\n", "\t"}
    THEN TrimRight(SubSeq(text, 1, Len(text) - 1))
    ELSE text

LabelOccursIn(row, label) ==
    LET cell == TrimRight(row.label)
        off  == Len(cell) - Len(label)
    IN  /\ off >= 0
        /\ \A k \in 1 .. Len(label) : Lower(cell[off + k]) = Lower(label[k])

HasValueContainer(row) ==
    row.open # None /\ row.open[1] \in {"<td>", "<TD>", "<td class=x>"}

Occurrences(rows, label) ==
    {i \in 1 .. Len(rows) : LabelOccursIn(rows[i], label) /\ HasValueContainer(rows[i])}

\* C10: _find_label_value returns the normalized content of the value
\* container next to the first occurrence of the label that has one; later
\* occurrences do not matter, and the result is absent exactly when no
\* occurrence has a value container.
C10_FirstOccurrence ==
    pc = "returned" =>
        IF Occurrences(doc, arg) = {} THEN ret = None
        ELSE ret = Some(doc[SetMin(Occurrences(doc, arg))].norm)

C10_Witness ==
    /\ pc = "returned"
    /\ arg = Name
    /\ Len(doc) = 3
    /\ doc[1].open = None
    /\ doc[2].value = <<" ", "B", "\n", " ", "b", " ">>
    /\ doc[3].value = <<"A">>
    /\ ret = Some(<<"B", " ", "b">>)

-----------------------------------------------------------------------------
(* Section Extractor: _extract_section                                     *)

TableClosesAfter(text, i) == {e \in (i + 1) .. Len(text) : IsTableClose(text[e])}

\* The match of  title\s*</h2>\s*(<table.*?</table>)  starting at i:
\* None, or Some(group 1).
SectionMatchAt(text, title, i) ==
    IF ~LiteralAt(text, title, i) THEN None
    ELSE LET j == SkipSpace(text, i + Len(title))
         IN  IF j > Len(text) \/ ~IsH2Close(text[j]) THEN None
             ELSE LET k == SkipSpace(text, j + 1)
                  IN  IF k > Len(text) \/ ~IsTableOpen(text[k]) THEN None
                      ELSE IF TableClosesAfter(text, k) = {} THEN None
                      ELSE Some(SubSeq(text, k, SetMin(TableClosesAfter(text, k))))

SectionMatchStarts(text, title) ==
    {i \in 1 .. Len(text) : SectionMatchAt(text, title, i) # None}

extract_section(text, title) ==
    IF SectionMatchStarts(text, title) = {} THEN None
    ELSE SectionMatchAt(text, title, SetMin(SectionMatchStarts(text, title)))

\* One call of _extract_section on its own.
ExtractSection ==
    /\ pc = "start"
    /\ ret' = extract_section(html, arg)
    /\ pc' = "returned"
    /\ UNCHANGED <<doc, html, arg, system_info, battery_info, history, health>>

\* The title _parse_capacity_history asks for.
HistoryTitle == <<"B","a","t","t","e","r","y"," ","c","a","p","a","c","i","t","y"," ","h","i","s","t","o","r","y">>

HistoryTitleUpper == <<"B","A","T","T","E","R","Y"," ","C","A","P","A","C","I","T","Y"," ","H","I","S","T","O","R","Y">>

InfoTitle == <<"I","n","f","o">>

\* The most line breaks written between a heading and what follows it.
MaxGapSpaces == 2

InfoTable == <<"<table>", "<tr>", "<td>", "0", "</td>", "</tr>", "</table>">>

PlainTable == <<"<table>", "<tr>", "<td>", "1", "</td>", "</tr>", "</table>">>

AttrsTable == <<"<table class=x>", "<tr>", "<td>", "1", "</td>", "</tr>", "</table>">>

PostTable == <<"<table>", "<tr>", "<td>", "2", "</td>", "</tr>", "</table>">>

Explanation == <<"<div>", "x", "</div>", "\n">>

RenderHeading(kind) ==
    IF kind = "exact" THEN <<"<h2>">> \o HistoryTitle \o <<"</h2>">>
    ELSE IF kind = "upper" THEN <<"<H2>">> \o HistoryTitleUpper \o <<"</H2>">>
    ELSE IF kind = "spaced" THEN <<"<h2>">> \o HistoryTitle \o <<" ", "\n", "</h2>">>
    ELSE << >>

TableOf(kind) ==
    IF kind = "plain" THEN PlainTable
    ELSE IF kind = "attrs" THEN AttrsTable
    ELSE << >>

\* A document with an optional Info section, the history heading, line
\* breaks, an optional explanation block, the history table and an optional
\* later table.
RenderSectionDoc(d) ==
    (IF d.pre THEN <<"<h2>">> \o InfoTitle \o <<"</h2>">> \o InfoTable \o <<"\n">> ELSE << >>)
    \o RenderHeading(d.heading)
    \o [i \in 1 .. d.spaces |-> "\n"]
    \o (IF d.div THEN Explanation ELSE << >>)
    \o TableOf(d.table)
    \o (IF d.post THEN <<"\n">> \o PostTable ELSE << >>)

SectionDocs ==
    [ pre : BOOLEAN, heading : {"none", "exact", "upper", "spaced"},
      spaces : 0 .. MaxGapSpaces, div : BOOLEAN,
      table : {"none", "plain", "attrs"}, post : BOOLEAN ]

InitSection ==
    /\ pc = "start"
    /\ doc \in SectionDocs
    /\ html = RenderSectionDoc(doc)
    /\ arg \in {HistoryTitle, InfoTitle}
    /\ ret = None
    /\ system_info = None
    /\ battery_info = None
    /\ history = << >>
    /\ health = None

SpecSection == InitSection /\ [][ExtractSection]_vars

\* The tables of a document that follow the heading `title`, in order.
TablesAfterHeading(d, title) ==
    IF title = InfoTitle
    THEN IF d.pre
         THEN <<InfoTable>> \o (IF d.table # "none" THEN <<TableOf(d.table)>> ELSE << >>)
              \o (IF d.post THEN <<PostTable>> ELSE << >>)
         ELSE << >>
    ELSE IF d.heading # "none"
         THEN (IF d.table # "none" THEN <<TableOf(d.table)>> ELSE << >>)
              \o (IF d.post THEN <<PostTable>> ELSE << >>)
         ELSE << >>

\* C8: when the heading occurs and a complete table occurs after it,
\* _extract_section returns the first complete table that follows the
\* heading; it is absent only when the heading is missing or no table follows.
C8_FirstTableAfterHeading ==
    pc = "returned" =>
        IF TablesAfterHeading(doc, arg) = << >> THEN ret = None
        ELSE ret = Some(TablesAfterHeading(doc, arg)[1])

-----------------------------------------------------------------------------
(* History Table Parser: _parse_capacity_history                           *)

\* row_pattern.findall: the groups of  <tr>(.*?)</tr>, left to right.
RECURSIVE FindRows(_)
FindRows(text) ==
    LET opens == {i \in 1 .. Len(text) : IsRowOpen(text[i])}
    IN  IF opens = {} THEN << >>
        ELSE LET s == SetMin(opens)
                 closes == {e \in (s + 1) .. Len(text) : IsRowClose(text[e])}
             IN  IF closes = {} THEN << >>
                 ELSE LET e == SetMin(closes)
                      IN  <<SubSeq(text, s + 1, e - 1)>>
                          \o FindRows(SubSeq(text, e + 1, Len(text)))

\* cell_pattern.findall: the groups of  <t[dh][^>]*>(.*?)</t[dh]>.
RECURSIVE FindCells(_)
FindCells(text) ==
    LET opens == {i \in 1 .. Len(text) : IsCellOpen(text[i])}
    IN  IF opens = {} THEN << >>
        ELSE LET s == SetMin(opens)
                 closes == {e \in (s + 1) .. Len(text) : IsCellClose(text[e])}
             IN  IF closes = {} THEN << >>
                 ELSE LET e == SetMin(closes)
                      IN  <<SubSeq(text, s + 1, e - 1)>>
                          \o FindCells(SubSeq(text, e + 1, Len(text)))

CellsOf(row) ==
    LET found == FindCells(row)
    IN  [i \in 1 .. Len(found) |-> clean_html(found[i])]

period == <<"p", "e", "r", "i", "o", "d">>

\* The rows the loop skips: len(cells) < 3 or cells[0].lower() == "period".
SkipsRow(cells) == Len(cells) < 3 \/ LowerStr(cells[1]) = period

EntryOf(cells) ==
    [ date                     |-> cells[1],
      full_charge_capacity_mwh |-> parse_int(Some(cells[2])),
      design_capacity_mwh      |-> parse_int(Some(cells[3])) ]

RECURSIVE EntriesOf(_)
EntriesOf(rows) ==
    IF rows = << >> THEN << >>
    ELSE LET cells == CellsOf(Head(rows))
         IN  (IF SkipsRow(cells) THEN << >> ELSE <<EntryOf(cells)>>)
             \o EntriesOf(Tail(rows))

parse_capacity_history(text) ==
    LET table_html == extract_section(text, HistoryTitle)
    IN  IF table_html = None \/ table_html[1] = << >> THEN << >>
        ELSE EntriesOf(FindRows(table_html[1]))

\* An entry whose coercion raised.
EntryRaised(entry) ==
    entry.full_charge_capacity_mwh = Raised \/ entry.design_capacity_mwh = Raised

\* One call of _parse_capacity_history on its own.
ParseCapacityHistory ==
    /\ pc = "start"
    /\ LET entries == parse_capacity_history(html)
       IN  IF \E i \in 1 .. Len(entries) : EntryRaised(entries[i])
           THEN pc' = "raised" /\ history' = history
           ELSE pc' = "returned" /\ history' = entries
    /\ UNCHANGED <<doc, html, arg, ret, system_info, battery_info, health>>

\* History documents: the heading (or none), then a table of rows.  A row is
\* its <tr> tag and its cells; a cell is its opening tag, its raw text, the
\* text as it reads once normalized, and the integer its digits denote.
MaxTableRows == 3

Cell(open, text, norm, int) == [open |-> open, text |-> text, norm |-> norm, int |-> int]

HistoryRowKinds ==
    { [tr |-> "<tr>", cells |-> << Cell("<th>", <<"P","e","r","i","o","d">>, <<"P","e","r","i","o","d">>, None),
                                   Cell("<th>", <<"F">>, <<"F">>, None),
                                   Cell("<th>", <<"D">>, <<"D">>, None) >>],
      [tr |-> "<tr>", cells |-> << Cell("<td>", <<"\n","P","E","R","I","O","D"," ">>, <<"P","E","R","I","O","D">>, None),
                                   Cell("<td class=x>", <<"F">>, <<"F">>, None),
                                   Cell("<td class=x>", <<"D">>, <<"D">>, None) >>],
      [tr |-> "<tr>", cells |-> << Cell("<td>", <<"2","0","2","4">>, <<"2","0","2","4">>, Some(2024)),
                                   Cell("<td>", <<"4","1",",","4","4","0"," ","m","W","h">>,
                                        <<"4","1",",","4","4","0"," ","m","W","h">>, Some(41440)),
                                   Cell("<td>", <<"5","0",",","0","0","0"," ","m","W","h">>,
                                        <<"5","0",",","0","0","0"," ","m","W","h">>, Some(50000)) >>],
      [tr |-> "<tr>", cells |-> << Cell("<td class=x>", <<" ","J","u","n","\n"," ","7","\n">>, <<"J","u","n"," ","7">>, Some(7)),
                                   Cell("<td class=x>", <<"4","0">>, <<"4","0">>, Some(40)),
                                   Cell("<td>", <<"-">>, <<"-">>, None) >>],
      [tr |-> "<tr>", cells |-> << Cell("<td>", <<"x">>, <<"x">>, None),
                                   Cell("<td>", <<"1">>, <<"1">>, Some(1)) >>],
      [tr |-> "<tr class=x>", cells |-> << Cell("<td>", <<"M","a","y">>, <<"M","a","y">>, None),
                                           Cell("<td>", <<"3","0">>, <<"3","0">>, Some(30)),
                                           Cell("<td>", <<"5","0">>, <<"5","0">>, Some(50)) >>],
      [tr |-> "<tr>", cells |-> << Cell("<td>", <<"A","p","r">>, <<"A","p","r">>, None),
                                   Cell("<td>", <<"0">>, <<"0">>, Some(0)),
                                   Cell("<td>", << >>, << >>, None),
                                   Cell("<td>", <<"9">>, <<"9">>, Some(9)) >>],
      [tr |-> "<tr>", cells |-> << >>] }

RenderCell(c) == <<c.open>> \o c.text \o <<CloseOf(c.open)>>

RenderHistoryRow(row) ==
    <<row.tr>> \o Flatten([i \in 1 .. Len(row.cells) |-> RenderCell(row.cells[i])])
    \o <<"</tr>", "\n">>

RenderHistoryDoc(d) ==
    (IF d.heading THEN <<"<h2>">> \o HistoryTitle \o <<"</h2>", "\n">> ELSE << >>)
    \o <<"<table>", "\n">>
    \o Flatten([i \in 1 .. Len(d.rows) |-> RenderHistoryRow(d.rows[i])])
    \o <<"</table>">>

HistoryDocs == [heading : BOOLEAN, rows : SeqsUpTo(HistoryRowKinds, MaxTableRows)]

InitHistory ==
    /\ pc = "start"
    /\ doc \in HistoryDocs
    /\ html = RenderHistoryDoc(doc)
    /\ arg = None
    /\ ret = None
    /\ system_info = None
    /\ battery_info = None
    /\ history = << >>
    /\ health = None

SpecHistory == InitHistory /\ [][ParseCapacityHistory]_vars

\* The entries the table's rows call for: one per row of at least 3 cells
\* whose first cell does not read "period" in any casing, in row order.
IsPeriod(text) ==
    /\ Len(text) = 6
    /\ text[1] \in {"p", "P"} /\ text[2] \in {"e", "E"} /\ text[3] \in {"r", "R"}
    /\ text[4] \in {"i", "I"} /\ text[5] \in {"o", "O"} /\ text[6] \in {"d", "D"}

RECURSIVE ExpectedEntries(_)
ExpectedEntries(rows) ==
    IF rows = << >> THEN << >>
    ELSE LET c == Head(rows).cells
         IN  (IF Len(c) >= 3 /\ ~IsPeriod(c[1].norm)
              THEN << [ date                     |-> c[1].norm,
                        full_charge_capacity_mwh |-> c[2].int,
                        design_capacity_mwh      |-> c[3].int ] >>
              ELSE << >>)
             \o ExpectedEntries(Tail(rows))

\* C7: the history is exactly the table's rows of at least 3 cells whose
\* first cell is not "period" in any casing, one entry per row in row order,
\* with date = cell 1 and the capacities the coercion of cells 2 and 3; no
\* entry is dated "period", and without a table fragment the history is empty.
C7_HistoryEntries ==
    /\ pc # "raised"
    /\ pc = "returned" =>
        /\ history = (IF doc.heading THEN ExpectedEntries(doc.rows) ELSE << >>)
        /\ \A i \in 1 .. Len(history) : ~IsPeriod(history[i].date)

-----------------------------------------------------------------------------
(* Report Parser: _parse_system_info, parse_battery_report                 *)

parse_system_info(text) ==
    [ product     |-> find_label_value(text, SystemProductName),
      bios        |-> find_label_value(text, BIOS),
      os_build    |-> find_label_value(text, OSBuild),
      report_time |-> find_label_value(text, ReportTime) ]

\* The BatteryInfo parse_battery_report builds.
battery_info_of(text) ==
    [ name                     |-> find_label_value(text, Name),
      manufacturer             |-> find_label_value(text, Manufacturer),
      chemistry                |-> find_label_value(text, Chemistry),
      design_capacity_mwh      |-> parse_int(find_label_value(text, DesignCapacity)),
      full_charge_capacity_mwh |-> parse_int(find_label_value(text, FullChargeCapacity)),
      cycle_count              |-> parse_int(find_label_value(text, CycleCount)) ]

\* parse_battery_report on the text of the report: the three results, or the
\* exception of a coercion that raised.
ParseBatteryReport ==
    /\ pc = "start"
    /\ LET battery == battery_info_of(html)
           entries == parse_capacity_history(html)
       IN  IF \/ battery.design_capacity_mwh = Raised
              \/ battery.full_charge_capacity_mwh = Raised
              \/ battery.cycle_count = Raised
              \/ \E i \in 1 .. Len(entries) : EntryRaised(entries[i])
           THEN /\ pc' = "raised"
                /\ UNCHANGED <<system_info, battery_info, history>>
           ELSE /\ pc' = "parsed"
                /\ system_info' = parse_system_info(html)
                /\ battery_info' = battery
                /\ history' = entries
    /\ UNCHANGED <<doc, html, arg, ret, health>>

\* Reports: a row per label of `present`, in the order of Labels, the
\* numeric values written in one of NumericStyles, then the history section
\* in one of HistoryVariants.
Labels ==
    << SystemProductName, BIOS, OSBuild, ReportTime, Name, Manufacturer,
       Chemistry, DesignCapacity, FullChargeCapacity, CycleCount >>

LabelIds == 1 .. 10

NumericStyles == {"plain", "units", "malformed", "zero"}

HistoryVariants == {"none", "heading", "table", "explained"}

TextValues == << <<"X", "P", "S">>, <<"1", ".", "2">>, <<"2", "2", "H", "2">>, <<"T">>,
                 <<"D", "E", "L", "L">>, <<"S", "M", "P">>, <<"L", "I", "O", "N">> >>

NumericValue(style, id) ==
    IF style = "plain"
    THEN (IF id = 8 THEN <<"2", "0", "0", "0">>
          ELSE IF id = 9 THEN <<"1", "7", "0", "0">> ELSE <<"6", "0", "0">>)
    ELSE IF style = "units"
    THEN (IF id = 8 THEN <<"1", ",", "0", "0", "0", " ", "m", "W", "h">>
          ELSE IF id = 9 THEN <<"6", "9", "9", " ", "m", "W", "h">> ELSE <<"4", "9", "9">>)
    ELSE IF style = "malformed"
    THEN (IF id = 8 THEN <<"N", "/", "A">>
          ELSE IF id = 9 THEN << >> ELSE <<"-">>)
    ELSE (IF id = 8 THEN <<"5", "0">>
          ELSE IF id = 9 THEN <<"0", " ", "m", "W", "h">> ELSE <<"0">>)

ValueText(d, id) == IF id <= 7 THEN TextValues[id] ELSE NumericValue(d.numeric, id)

RenderReportRow(d, id) ==
    IF id \in d.present
    THEN <<"<tr>", "<td>">> \o Labels[id] \o <<"</td>", "<td>">> \o ValueText(d, id)
         \o <<"</td>", "</tr>", "\n">>
    ELSE << >>

HistoryHeader ==
    <<"<tr>", "<td>", "P", "E", "R", "I", "O", "D", "</td>", "<td>", "F", "</td>",
      "<td>", "D", "</td>", "</tr>">>

HistoryData ==
    <<"<tr>", "<td>", "M", "a", "y", "</td>", "<td>", "4", "0", "</td>",
      "<td>", "-", "</td>", "</tr>">>

RenderHistorySection(kind) ==
    IF kind = "none" THEN << >>
    ELSE <<"<h2>">> \o HistoryTitle \o <<"</h2>", "\n">>
         \o (IF kind = "explained" THEN Explanation ELSE << >>)
         \o (IF kind = "heading" THEN << >>
             ELSE <<"<table>">> \o HistoryHeader \o HistoryData \o <<"</table>">>)

RenderReport(d) ==
    Flatten([id \in LabelIds |-> RenderReportRow(d, id)])
    \o RenderHistorySection(d.hist)

\* The reports enumerated: those with at most MaxPresent of the ten label
\* rows, and those that lack at most MaxAbsent of them.
MaxPresent == 2

MaxAbsent == 1

LabelSets ==
    {S \in SUBSET LabelIds :
        Cardinality(S) <= MaxPresent \/ Cardinality(LabelIds \ S) <= MaxAbsent}

Reports == [present : LabelSets, numeric : NumericStyles, hist : HistoryVariants]

Init ==
    /\ pc = "start"
    /\ doc \in Reports
    /\ html = RenderReport(doc)
    /\ arg = None
    /\ ret = None
    /\ system_info = None
    /\ battery_info = None
    /\ history = << >>
    /\ health = None

Next == ParseBatteryReport \/ BuildPayload

Spec == Init /\ [][Next]_vars

\* The ten extracted fields, in the order of Labels.
FieldsOf(system, battery) ==
    << system.product, system.bios, system.os_build, system.report_time,
       battery.name, battery.manufacturer, battery.chemistry,
       battery.design_capacity_mwh, battery.full_charge_capacity_mwh,
       battery.cycle_count >>

\* The text has a cell that holds exactly the label, in any casing.
HasLabelCell(text, label) ==
    \E p \in 1 .. Len(text) :
        /\ text[p] \in {"<td>", "<TD>", "<td class=x>"}
        /\ LiteralAt(text, label, p + 1)
        /\ p + Len(label) + 1 <= Len(text)
        /\ text[p + Len(label) + 1] \in {"</td>", "</TD>"}

\* The report without the row of one label.
WithoutRow(d, id) == [d EXCEPT !.present = @ \ {id}]

\* C1: the field of a label no cell of the document holds exactly is absent,
\* and taking a label's row away changes no other field.  A document with a
\* "System Product Name" row and no "Name" row has no battery name.
C1_MissingLabel ==
    pc = "parsed" =>
        LET fields == FieldsOf(system_info, battery_info)
        IN  /\ \A i \in LabelIds :
                   ~HasLabelCell(html, Labels[i]) => fields[i] = None
            /\ \A i \in doc.present :
                   LET text  == RenderReport(WithoutRow(doc, i))
                       other == FieldsOf(parse_system_info(text), battery_info_of(text))
                   IN  \A j \in LabelIds \ {i} : other[j] = fields[j]

\* The text of the label occurs somewhere in the document, in any casing.
LabelTextOccurs(text, label) == \E p \in 1 .. Len(text) : LiteralAt(text, label, p)

IsOptional(v) == v = None \/ Len(v) = 1

IsOptionalNat(v) == v = None \/ (Len(v) = 1 /\ v[1] \in Nat)

=============================================================================
